---- MODULE Spec2Model ----
(***************************************************************************)
(* Model of the portfolio updater (scripts/src/portfolio_updater): the     *)
(* pipeline of main(), the spreadsheet client, and the price and rate      *)
(* fetchers.                                                               *)
(*                                                                         *)
(* Representation.  Python strings are TLA+ strings.  A calendar date is   *)
(* a day ordinal of January 2024 (1..31) and its ISO text is IsoFormat of  *)
(* it; Python's comparison of two ISO texts is the comparison of their     *)
(* ordinals.  A provider index value is a timestamp counted in slots of    *)
(* SlotsPerDay per day, so two index values can fall on one calendar day.  *)
(* A float is the text of its repr ("150.0"), a missing close is "NaN".    *)
(* A Python value read from or sent to the spreadsheet is a record         *)
(* [t |-> type, s |-> text]; a stored cell is [k |-> kind, v |-> text      *)
(* shown].  A worksheet is the sequence of its rows (row 1 is the header), *)
(* and the spreadsheet is a function from the titles of the worksheets     *)
(* that exist to their rows.                                               *)
(***************************************************************************)
EXTENDS Integers, Sequences, FiniteSets, TLC

VARIABLES
    spreadsheet,      \* SheetsClient._spreadsheet: title -> rows of cells
    spreadsheet0,     \* the spreadsheet as it was when the run started
    backfill,         \* Settings.backfill
    pc,               \* position of main(), or of the operation under test
    error,            \* the step whose exception ended the run ("" if none)
    investments,      \* main: investments
    unique_tickers,   \* main: unique_tickers
    earliest_date,    \* main: earliest_date
    existing_prices,  \* main: existing_prices
    existing_rates,   \* main: existing_rates
    raw_prices,       \* main: raw_prices
    raw_rates,        \* main: raw_rates
    new_prices,       \* main: new_prices
    new_rates,        \* main: new_rates
    api_calls,        \* calls made on the spreadsheet API, in order
    fetch_calls,      \* calls of the four fetch_* functions, in order
    yf_calls,         \* yf.download requests, in order
    resp_prices,      \* what the provider answered, per ticker
    resp_rates,       \* what the provider answered for USDTWD=X
    last_set,         \* update_metadata: key -> value of the latest call
    ncalls            \* number of operations applied so far

vars == <<spreadsheet, spreadsheet0, backfill, pc, error, investments,
          unique_tickers, earliest_date, existing_prices, existing_rates,
          raw_prices, raw_rates, new_prices, new_rates, api_calls,
          fetch_calls, yf_calls, resp_prices, resp_rates, last_set, ncalls>>

-----------------------------------------------------------------------------
(* Bounds of the model.                                                    *)

MaxInv == 2        \* rows of the investments sheet
MaxPoints == 2     \* data points per provider answer, in a run of main()
MaxSeries == 3     \* data points per provider answer, fetchers alone
MaxDays == 2       \* the day count N of a recent-mode fetch, fetchers alone
MaxRecords == 2    \* length of the record lists given to the dedup filters
MaxCalls == 3      \* update_metadata calls in a row

-----------------------------------------------------------------------------
(* Dates and timestamps.                                                   *)

Today == 20
SlotsPerDay == 2
DefaultDays == 5
LookbackFactor == 3

Pad2(d) == IF d < 10 THEN "0" \o ToString(d) ELSE ToString(d)

IsoTable == [d \in 1..31 |-> "2024-01-" \o Pad2(d)]

IsoFormat(d) == IsoTable[d]

IsoDates == {IsoTable[d] : d \in DOMAIN IsoTable}

FromIso(s) == CHOOSE d \in DOMAIN IsoTable : IsoTable[d] = s

\* idx.date(): the calendar day of a provider index value
DateOf(ts) == ts \div SlotsPerDay

\* datetime.now(tz=utc).strftime("%Y-%m-%dT%H:%M:%SZ")
UtcNowStamp == IsoFormat(Today) \o "T06:00:00Z"

OldStamp == IsoFormat(Today - 1) \o "T06:00:00Z"

-----------------------------------------------------------------------------
(* Values and cells.                                                       *)

PyStr(s) == [t |-> "str", s |-> s]
PyFloat(s) == [t |-> "float", s |-> s]
Str(pv) == pv.s

TextCell(s) == [k |-> "text", v |-> s]
NumberCell(s) == [k |-> "number", v |-> s]
DateCell(s) == [k |-> "date", v |-> s]

\* texts that read as an integer, with the text of that integer
IntCanon == ("0050" :> "50") @@ ("50" :> "50")
IntTexts == DOMAIN IntCanon
FloatTexts == {"150.0"}

\* The cell the spreadsheet stores for a value sent with value_input_option
\* = mode.  A number is stored as a number.  A string is stored as text in
\* RAW mode; in USER_ENTERED mode it is parsed as if typed: a date text
\* becomes a date (shown in the same form), a numeric text a number.
ValueInput(mode, pv) ==
    IF pv.t # "str" THEN NumberCell(pv.s)
    ELSE IF mode = "RAW" THEN TextCell(pv.s)
    ELSE IF pv.s \in IsoDates THEN DateCell(pv.s)
    ELSE IF pv.s \in IntTexts THEN NumberCell(IntCanon[pv.s])
    ELSE IF pv.s \in FloatTexts THEN NumberCell(pv.s)
    ELSE TextCell(pv.s)

RowInput(mode, values) == [j \in 1..Len(values) |-> ValueInput(mode, values[j])]

\* gspread numericise: the shown text of a cell as int, float or str
Numericise(s) ==
    IF s \in IntTexts THEN [t |-> "int", s |-> IntCanon[s]]
    ELSE IF s \in FloatTexts THEN PyFloat(s)
    ELSE PyStr(s)

\* Python truthiness of a value
Truthy(pv) == pv.s \notin {"", "0", "0.0"}

\* worksheet.get_all_records(): one dict per row after the header row
GetAllRecords(rows) ==
    IF rows = <<>> THEN <<>>
    ELSE LET head == rows[1]
             col(h) == CHOOSE j \in 1..Len(head) : head[j].v = h
         IN  [i \in 1..(Len(rows) - 1) |->
                [h \in {head[j].v : j \in 1..Len(head)} |->
                    Numericise(rows[i + 1][col(h)].v)]]

-----------------------------------------------------------------------------
(* Spreadsheet client.                                                     *)

SHEET_INVESTMENTS == "investments"
SHEET_PRICES == "prices"
SHEET_RATES == "exchange_rates"
SHEET_METADATA == "metadata"

PricesHeaders == <<"ticker", "date", "close">>
RatesHeaders == <<"date", "usd_twd">>
MetadataHeaders == <<"key", "value">>
InvestmentsHeaders == <<"ticker", "date", "market">>

Call(op, title, mode) == [op |-> op, title |-> title, mode |-> mode]

HeaderValues(headers) == [j \in 1..Len(headers) |-> PyStr(headers[j])]

\* _get_or_create_worksheet(title, headers)
GetOrCreateWorksheet(ss, title, headers) ==
    IF title \in DOMAIN ss
    THEN [ss |-> ss, calls |-> <<Call("worksheet", title, "")>>]
    ELSE [ss |-> (title :> <<RowInput("USER_ENTERED", HeaderValues(headers))>>) @@ ss,
          calls |-> <<Call("worksheet", title, ""),
                      Call("add_worksheet", title, ""),
                      Call("append_row", title, "USER_ENTERED")>>]


\* Investment.model_validate(row): the fields are str and market is one of
\* the two literals; a value that get_all_records turned into a number is
\* not a str
IsValidInvestment(row) ==
    /\ row["ticker"].t = "str"
    /\ row["date"].t = "str"
    /\ row["market"].t = "str"
    /\ row["market"].s \in {"TW", "US"}

Investment(row) ==
    [ticker |-> row["ticker"].s, date |-> row["date"].s, market |-> row["market"].s]

RECURSIVE ValidInvestments(_)
ValidInvestments(rows) ==
    IF rows = <<>> THEN <<>>
    ELSE IF IsValidInvestment(Head(rows))
         THEN <<Investment(Head(rows))>> \o ValidInvestments(Tail(rows))
         ELSE ValidInvestments(Tail(rows))

\* get_investments(): the rows that validate, in sheet order
GetInvestments(ss) == ValidInvestments(GetAllRecords(ss[SHEET_INVESTMENTS]))

ReadCalls(title) == <<Call("worksheet", title, ""), Call("get_all_records", title, "")>>

RecordSet(rows) == {GetAllRecords(rows)[i] : i \in 1..(Len(rows) - 1)}

\* get_existing_prices finding no key at all
GetExistingPricesNone(ss) == {}

\* get_existing_prices(): the (ticker, date) keys of the prices sheet
GetExistingPrices(ss) ==
    IF SHEET_PRICES \notin DOMAIN ss THEN {}
    ELSE {<<Str(row["ticker"]), Str(row["date"])>> :
            row \in {r \in RecordSet(ss[SHEET_PRICES]) :
                        Truthy(r["ticker"]) /\ Truthy(r["date"])}}

\* get_existing_rates(): the date keys of the exchange_rates sheet
GetExistingRates(ss) ==
    IF SHEET_RATES \notin DOMAIN ss THEN {}
    ELSE {Str(row["date"]) :
            row \in {r \in RecordSet(ss[SHEET_RATES]) : Truthy(r["date"])}}

ExistingCalls(ss, title) ==
    IF title \in DOMAIN ss THEN ReadCalls(title) ELSE <<Call("worksheet", title, "")>>

\* the price row with its first two columns in the wrong order
PriceRowValuesSwapped(r) == <<PyStr(r.date), PyStr(r.ticker), PyFloat(r.close)>>

\* rows = [[r.ticker, r.date, r.close] for r in records]
PriceRowValues(r) == <<PyStr(r.ticker), PyStr(r.date), PyFloat(r.close)>>

\* rows = [[r.date, r.usd_twd] for r in records]
RateRowValues(r) == <<PyStr(r.date), PyFloat(r.usd_twd)>>

\* value_input_option of the append_rows call of append_prices / append_rates
AppendRowsMode == "USER_ENTERED"

\* append_prices without its guard on an empty list
AppendPricesNoGuard(ss, records) ==
    LET g == GetOrCreateWorksheet(ss, SHEET_PRICES, PricesHeaders)
        rows == [i \in 1..Len(records) |->
                    RowInput(AppendRowsMode, PriceRowValues(records[i]))]
    IN  [ss |-> [g.ss EXCEPT ![SHEET_PRICES] = @ \o rows],
         calls |-> g.calls \o <<Call("append_rows", SHEET_PRICES, AppendRowsMode)>>]

\* append_prices(records)
AppendPrices(ss, records) ==
    IF records = <<>> THEN [ss |-> ss, calls |-> <<>>]
    ELSE LET g == GetOrCreateWorksheet(ss, SHEET_PRICES, PricesHeaders)
             rows == [i \in 1..Len(records) |->
                        RowInput(AppendRowsMode, PriceRowValues(records[i]))]
         IN  [ss |-> [g.ss EXCEPT ![SHEET_PRICES] = @ \o rows],
              calls |-> g.calls \o <<Call("append_rows", SHEET_PRICES, AppendRowsMode)>>]

\* append_rates(records)
AppendRates(ss, records) ==
    IF records = <<>> THEN [ss |-> ss, calls |-> <<>>]
    ELSE LET g == GetOrCreateWorksheet(ss, SHEET_RATES, RatesHeaders)
             rows == [i \in 1..Len(records) |->
                        RowInput(AppendRowsMode, RateRowValues(records[i]))]
         IN  [ss |-> [g.ss EXCEPT ![SHEET_RATES] = @ \o rows],
              calls |-> g.calls \o <<Call("append_rows", SHEET_RATES, AppendRowsMode)>>]

\* the scan of update_metadata finding nothing
MetadataMatchesNone(rows, key) == {}

\* the rows of the metadata sheet whose key reads as `key` (1 = first row
\* after the header)
MetadataMatches(rows, key) ==
    {i \in 1..(Len(rows) - 1) : Str(GetAllRecords(rows)[i]["key"]) = key}

\* update_metadata(key, value): overwrite the value cell of the first row
\* that holds key, else append a row
UpdateMetadata(ss, key, value) ==
    LET g == GetOrCreateWorksheet(ss, SHEET_METADATA, MetadataHeaders)
        rows == g.ss[SHEET_METADATA]
        hit == MetadataMatches(rows, key)
        read == <<Call("get_all_records", SHEET_METADATA, "")>>
    IN  IF hit # {}
        THEN LET idx == 1 + CHOOSE i \in hit : \A j \in hit : i <= j
             IN  [ss |-> [g.ss EXCEPT ![SHEET_METADATA][idx][2] =
                                ValueInput("USER_ENTERED", PyStr(value))],
                  calls |-> g.calls \o read \o
                            <<Call("update_cell", SHEET_METADATA, "USER_ENTERED")>>]
        ELSE [ss |-> [g.ss EXCEPT ![SHEET_METADATA] =
                            @ \o <<RowInput("USER_ENTERED", <<PyStr(key), PyStr(value)>>)>>],
              calls |-> g.calls \o read \o
                        <<Call("append_row", SHEET_METADATA, "USER_ENTERED")>>]

-----------------------------------------------------------------------------
(* Market-data provider and fetchers.                                      *)

USDTWD_TICKER == "USDTWD=X"

NaN == "NaN"
CloseValue == "150.0"

\* what yf.download can do: raise, or return a frame; a frame has a Close
\* column or not, and is empty when it has no points
RaiseResp == [kind |-> "raise", close_col |-> FALSE, points |-> <<>>]
Frame(has_close, pts) == [kind |-> "frame", close_col |-> has_close, points |-> pts]

\* close_series.tail(n)
TailSeq(s, n) == IF Len(s) <= n THEN s ELSE SubSeq(s, Len(s) - n + 1, Len(s))

\* data["Close"].dropna()
RECURSIVE DropNa(_)
DropNa(s) ==
    IF s = <<>> THEN <<>>
    ELSE IF Head(s).close = NaN THEN DropNa(Tail(s))
         ELSE <<Head(s)>> \o DropNa(Tail(s))

\* tail is <<>> for None and <<n>> for n
Trim(s, tail) == IF tail = <<>> THEN s ELSE TailSeq(s, tail[1])

\* the trim applied before the missing closes are dropped
CloseSeriesTrimFirst(resp, tail) == DropNa(Trim(resp.points, tail))

CloseSeries(resp, tail) == Trim(DropNa(resp.points), tail)

\* whether the download or the conversion of the answer raises
Raises(resp) == resp.kind = "raise" \/ (resp.points # <<>> /\ ~resp.close_col)

PriceRecord(ticker, p) ==
    [ticker |-> ticker, date |-> IsoFormat(DateOf(p.ts)), close |-> p.close]

ExchangeRateRecord(p) == [date |-> IsoFormat(DateOf(p.ts)), usd_twd |-> p.close]

\* _download_single(ticker, start, tail), when it does not raise
DownloadSingle(ticker, resp, tail) ==
    IF resp.points = <<>> THEN <<>>
    ELSE LET cs == CloseSeries(resp, tail)
         IN  [i \in 1..Len(cs) |-> PriceRecord(ticker, cs[i])]

\* the price download with no try/except around _download_single: the
\* first ticker that raises ends the loop
RECURSIVE DownloadPricesNoCatch(_, _, _)
DownloadPricesNoCatch(tickers, resp, tail) ==
    IF tickers = <<>> THEN <<>>
    ELSE LET t == Head(tickers)
         IN  IF Raises(resp[t]) THEN <<>>
             ELSE DownloadSingle(t, resp[t], tail)
                  \o DownloadPricesNoCatch(Tail(tickers), resp, tail)

\* price_fetcher._download(tickers, start, tail): a ticker whose
\* _download_single raises contributes nothing
RECURSIVE DownloadPrices(_, _, _)
DownloadPrices(tickers, resp, tail) ==
    IF tickers = <<>> THEN <<>>
    ELSE LET t == Head(tickers)
             got == IF Raises(resp[t]) THEN <<>> ELSE DownloadSingle(t, resp[t], tail)
         IN  got \o DownloadPrices(Tail(tickers), resp, tail)

\* rate_fetcher._download(start, tail): only the yf.download call is inside
\* the try block
DownloadRates(resp, tail) ==
    IF resp.kind = "raise" THEN [raised |-> FALSE, records |-> <<>>]
    ELSE IF resp.points = <<>> THEN [raised |-> FALSE, records |-> <<>>]
    ELSE IF ~resp.close_col THEN [raised |-> TRUE, records |-> <<>>]
    ELSE LET cs == CloseSeries(resp, tail)
         IN  [raised |-> FALSE,
              records |-> [i \in 1..Len(cs) |-> ExchangeRateRecord(cs[i])]]

\* start = (date.today() - timedelta(days=days * 3)).isoformat()
RecentStart(days) == IsoFormat(Today - days * LookbackFactor)

YfCalls(tickers, start) == [i \in 1..Len(tickers) |-> [ticker |-> tickers[i], start |-> start]]

FetchCall(fn, tickers, start, days) ==
    [fn |-> fn, tickers |-> tickers, start |-> start, days |-> days]

\* the index values the provider has data for, from the day `start` on
AllStamps == {SlotsPerDay * (Today - 1), SlotsPerDay * Today, SlotsPerDay * Today + 1}
Stamps(start) == {ts \in AllStamps : DateOf(ts) >= FromIso(start)}

RECURSIVE Ascending(_)
Ascending(S) ==
    IF S = {} THEN <<>>
    ELSE LET m == CHOOSE x \in S : \A y \in S : x <= y
         IN  <<m>> \o Ascending(S \ {m})

\* the series of at most maxlen points in index order, closes from `closes`
SeriesSet(S, maxlen, closes) ==
    UNION {{[i \in 1..Cardinality(T) |-> [ts |-> Ascending(T)[i], close |-> c[Ascending(T)[i]]]] :
                c \in [T -> closes]} :
           T \in {U \in SUBSET S : Cardinality(U) <= maxlen}}

Responses(start, maxlen, closes) ==
    {RaiseResp}
    \cup {Frame(TRUE, s) : s \in SeriesSet(Stamps(start), maxlen, closes)}
    \cup {Frame(FALSE, s) : s \in SeriesSet(Stamps(start), 1, {CloseValue}) \ {<<>>}}


-----------------------------------------------------------------------------
(* main(): the pure steps.                                                 *)

\* the price filter with the key compared by date alone
RECURSIVE FilterNewPricesByDate(_, _)
FilterNewPricesByDate(records, existing) ==
    IF records = <<>> THEN <<>>
    ELSE IF Head(records).date \notin {k[2] : k \in existing}
         THEN <<Head(records)>> \o FilterNewPricesByDate(Tail(records), existing)
         ELSE FilterNewPricesByDate(Tail(records), existing)

\* _filter_new_prices(records, existing)
RECURSIVE FilterNewPrices(_, _)
FilterNewPrices(records, existing) ==
    IF records = <<>> THEN <<>>
    ELSE IF <<Head(records).ticker, Head(records).date>> \notin existing
         THEN <<Head(records)>> \o FilterNewPrices(Tail(records), existing)
         ELSE FilterNewPrices(Tail(records), existing)

\* _filter_new_rates(records, existing)
RECURSIVE FilterNewRates(_, _)
FilterNewRates(records, existing) ==
    IF records = <<>> THEN <<>>
    ELSE IF Head(records).date \notin existing
         THEN <<Head(records)>> \o FilterNewRates(Tail(records), existing)
         ELSE FilterNewRates(Tail(records), existing)

\* the ticker texts of the model in Python's string order
TickerOrder == <<"AAPL", "MSFT">>
StrRank(t) == CHOOSE i \in 1..Len(TickerOrder) : TickerOrder[i] = t

RECURSIVE SortedStr(_)
SortedStr(S) ==
    IF S = {} THEN <<>>
    ELSE LET m == CHOOSE x \in S : \A y \in S : StrRank(x) <= StrRank(y)
         IN  <<m>> \o SortedStr(S \ {m})

\* unique_tickers = sorted({inv.ticker for inv in investments})
UniqueTickers(invs) == SortedStr({invs[i].ticker : i \in 1..Len(invs)})

\* earliest_date = min(inv.date for inv in investments)
EarliestDate(invs) ==
    LET ds == {invs[i].date : i \in 1..Len(invs)}
    IN  CHOOSE d \in ds : \A e \in ds : FromIso(d) <= FromIso(e)

\* main without the early return
AfterInvestmentsNoReturn(invs) == "get_existing_prices"

\* if not investments: return
AfterInvestments(invs) == IF invs = <<>> THEN "done" ELSE "get_existing_prices"

\* the backfill branch taken the wrong way round
MainPriceCallInverted(bf, tickers, earliest) ==
    IF ~bf THEN FetchCall("fetch_historical_prices", tickers, <<earliest>>, <<>>)
    ELSE FetchCall("fetch_recent_prices", tickers, <<>>, <<DefaultDays>>)

\* the fetch_* call main makes for prices
MainPriceCall(bf, tickers, earliest) ==
    IF bf THEN FetchCall("fetch_historical_prices", tickers, <<earliest>>, <<>>)
    ELSE FetchCall("fetch_recent_prices", tickers, <<>>, <<DefaultDays>>)

\* the fetch_* call main makes for rates
MainRateCall(bf, earliest) ==
    IF bf THEN FetchCall("fetch_historical_rates", <<>>, <<earliest>>, <<>>)
    ELSE FetchCall("fetch_recent_rates", <<>>, <<>>, <<DefaultDays>>)

\* the window start and the trim a fetch_* call hands to _download
StartOf(call) == IF call.days = <<>> THEN call.start[1] ELSE RecentStart(call.days[1])
TailOf(call) == call.days

Range(s) == {s[i] : i \in 1..Len(s)}

-----------------------------------------------------------------------------
(* Initial states of a run of main().                                      *)

InvRow(ticker, d, market) == <<ticker, DateCell(IsoFormat(d)), TextCell(market)>>

\* rows a user may have typed into the investments sheet: two valid ones,
\* one with a market outside the enum, one whose ticker reads as a number
SampleRows ==
    { InvRow(TextCell("AAPL"), Today - 1, "US"),
      InvRow(TextCell("MSFT"), Today, "US"),
      InvRow(TextCell("AAPL"), Today, "JP"),
      InvRow(TextCell("0050"), Today - 1, "TW") }

SeqsUpTo(S, n) == UNION {[1..k -> S] : k \in 0..n}

HeaderRow(headers) == RowInput("USER_ENTERED", HeaderValues(headers))

InvestmentSheets ==
    {<<HeaderRow(InvestmentsHeaders)>> \o rows : rows \in SeqsUpTo(SampleRows, MaxInv)}

\* data sheets already filled by earlier runs
PopulatedSheets ==
    (SHEET_PRICES :> <<HeaderRow(PricesHeaders),
                       <<TextCell("AAPL"), DateCell(IsoFormat(Today)), NumberCell(CloseValue)>>>>)
    @@ (SHEET_RATES :> <<HeaderRow(RatesHeaders),
                         <<DateCell(IsoFormat(Today)), NumberCell(CloseValue)>>>>)
    @@ (SHEET_METADATA :> <<HeaderRow(MetadataHeaders),
                            <<TextCell("last_update"), TextCell(OldStamp)>>>>)

NoResp == <<>>

InitLocals ==
    /\ error = ""
    /\ investments = <<>>
    /\ unique_tickers = <<>>
    /\ earliest_date = ""
    /\ existing_prices = {}
    /\ existing_rates = {}
    /\ raw_prices = <<>>
    /\ raw_rates = <<>>
    /\ new_prices = <<>>
    /\ new_rates = <<>>
    /\ api_calls = <<>>
    /\ fetch_calls = <<>>
    /\ yf_calls = <<>>
    /\ resp_prices = NoResp
    /\ resp_rates = RaiseResp
    /\ last_set = <<>>
    /\ ncalls = 0

Init ==
    /\ \E inv \in InvestmentSheets :
         spreadsheet \in { (SHEET_INVESTMENTS :> inv),
                           (SHEET_INVESTMENTS :> inv) @@ PopulatedSheets }
    /\ spreadsheet0 = spreadsheet
    /\ backfill \in BOOLEAN
    /\ pc = "get_investments"
    /\ InitLocals


-----------------------------------------------------------------------------
(* main(): one action per call it makes.                                   *)

\* investments = sheets.get_investments(), the early return, and the
\* derivation of unique_tickers and earliest_date
GetInvestmentsStep ==
    /\ pc = "get_investments"
    /\ SHEET_INVESTMENTS \in DOMAIN spreadsheet
    /\ LET invs == GetInvestments(spreadsheet)
       IN  /\ investments' = invs
           /\ pc' = AfterInvestments(invs)
           /\ unique_tickers' = IF invs = <<>> THEN <<>> ELSE UniqueTickers(invs)
           /\ earliest_date' = IF invs = <<>> THEN "" ELSE EarliestDate(invs)
    /\ api_calls' = api_calls \o ReadCalls(SHEET_INVESTMENTS)
    /\ UNCHANGED <<spreadsheet, spreadsheet0, backfill, error, existing_prices,
                   existing_rates, raw_prices, raw_rates, new_prices, new_rates,
                   fetch_calls, yf_calls, resp_prices, resp_rates, last_set, ncalls>>

\* existing_prices = sheets.get_existing_prices()
GetExistingPricesStep ==
    /\ pc = "get_existing_prices"
    /\ existing_prices' = GetExistingPrices(spreadsheet)
    /\ api_calls' = api_calls \o ExistingCalls(spreadsheet, SHEET_PRICES)
    /\ pc' = "get_existing_rates"
    /\ UNCHANGED <<spreadsheet, spreadsheet0, backfill, error, investments,
                   unique_tickers, earliest_date, existing_rates, raw_prices,
                   raw_rates, new_prices, new_rates, fetch_calls, yf_calls,
                   resp_prices, resp_rates, last_set, ncalls>>

\* existing_rates = sheets.get_existing_rates()
GetExistingRatesStep ==
    /\ pc = "get_existing_rates"
    /\ existing_rates' = GetExistingRates(spreadsheet)
    /\ api_calls' = api_calls \o ExistingCalls(spreadsheet, SHEET_RATES)
    /\ pc' = "fetch_prices"
    /\ UNCHANGED <<spreadsheet, spreadsheet0, backfill, error, investments,
                   unique_tickers, earliest_date, existing_prices, raw_prices,
                   raw_rates, new_prices, new_rates, fetch_calls, yf_calls,
                   resp_prices, resp_rates, last_set, ncalls>>

\* the effect of one fetch_*_prices call, the provider answering resp
DoFetchPrices(call, resp) ==
    /\ raw_prices' = DownloadPrices(call.tickers, resp, TailOf(call))
    /\ fetch_calls' = Append(fetch_calls, call)
    /\ yf_calls' = yf_calls \o YfCalls(call.tickers, StartOf(call))
    /\ resp_prices' = resp

\* raw_prices = fetch_historical_prices(...) or fetch_recent_prices(...)
FetchPricesStep ==
    /\ pc = "fetch_prices"
    /\ LET call == MainPriceCall(backfill, unique_tickers, earliest_date)
       IN  \E resp \in [Range(call.tickers) ->
                            Responses(StartOf(call), MaxPoints, {CloseValue})] :
               DoFetchPrices(call, resp)
    /\ pc' = "fetch_rates"
    /\ UNCHANGED <<spreadsheet, spreadsheet0, backfill, error, investments,
                   unique_tickers, earliest_date, existing_prices, existing_rates,
                   raw_rates, new_prices, new_rates, api_calls, resp_rates,
                   last_set, ncalls>>

\* the effect of one fetch_*_rates call, the provider answering resp; an
\* exception of _download leaves raw_rates unassigned and ends the caller
DoFetchRates(call, resp, next) ==
    LET r == DownloadRates(resp, TailOf(call))
    IN  /\ fetch_calls' = Append(fetch_calls, call)
        /\ yf_calls' = Append(yf_calls, [ticker |-> USDTWD_TICKER, start |-> StartOf(call)])
        /\ resp_rates' = resp
        /\ raw_rates' = r.records
        /\ pc' = IF r.raised THEN "aborted" ELSE next
        /\ error' = IF r.raised THEN "fetch_rates" ELSE error

\* raw_rates = fetch_historical_rates(...) or fetch_recent_rates(...)
FetchRatesStep ==
    /\ pc = "fetch_rates"
    /\ LET call == MainRateCall(backfill, earliest_date)
       IN  \E resp \in Responses(StartOf(call), MaxPoints, {CloseValue}) :
               DoFetchRates(call, resp, "dedup")
    /\ UNCHANGED <<spreadsheet, spreadsheet0, backfill, investments, unique_tickers,
                   earliest_date, existing_prices, existing_rates, raw_prices,
                   new_prices, new_rates, api_calls, resp_prices, last_set, ncalls>>

\* the dedup step of a main() that appends the rates first and the prices
\* never
DedupStepRatesFirst ==
    /\ pc = "dedup"
    /\ new_prices' = FilterNewPrices(raw_prices, existing_prices)
    /\ new_rates' = FilterNewRates(raw_rates, existing_rates)
    /\ pc' = "append_rates"
    /\ UNCHANGED <<spreadsheet, spreadsheet0, backfill, error, investments,
                   unique_tickers, earliest_date, existing_prices, existing_rates,
                   raw_prices, raw_rates, api_calls, fetch_calls, yf_calls,
                   resp_prices, resp_rates, last_set, ncalls>>

\* new_prices = _filter_new_prices(...); new_rates = _filter_new_rates(...)
DedupStep ==
    /\ pc = "dedup"
    /\ new_prices' = FilterNewPrices(raw_prices, existing_prices)
    /\ new_rates' = FilterNewRates(raw_rates, existing_rates)
    /\ pc' = "append_prices"
    /\ UNCHANGED <<spreadsheet, spreadsheet0, backfill, error, investments,
                   unique_tickers, earliest_date, existing_prices, existing_rates,
                   raw_prices, raw_rates, api_calls, fetch_calls, yf_calls,
                   resp_prices, resp_rates, last_set, ncalls>>

\* sheets.append_prices(new_prices)
AppendPricesStep ==
    /\ pc = "append_prices"
    /\ LET a == AppendPrices(spreadsheet, new_prices)
       IN  /\ spreadsheet' = a.ss
           /\ api_calls' = api_calls \o a.calls
    /\ pc' = "append_rates"
    /\ UNCHANGED <<spreadsheet0, backfill, error, investments, unique_tickers,
                   earliest_date, existing_prices, existing_rates, raw_prices,
                   raw_rates, new_prices, new_rates, fetch_calls, yf_calls,
                   resp_prices, resp_rates, last_set, ncalls>>

\* sheets.append_rates(new_rates)
AppendRatesStep ==
    /\ pc = "append_rates"
    /\ LET a == AppendRates(spreadsheet, new_rates)
       IN  /\ spreadsheet' = a.ss
           /\ api_calls' = api_calls \o a.calls
    /\ pc' = "update_metadata"
    /\ UNCHANGED <<spreadsheet0, backfill, error, investments, unique_tickers,
                   earliest_date, existing_prices, existing_rates, raw_prices,
                   raw_rates, new_prices, new_rates, fetch_calls, yf_calls,
                   resp_prices, resp_rates, last_set, ncalls>>

\* sheets.update_metadata("last_update", timestamp)
UpdateMetadataStep ==
    /\ pc = "update_metadata"
    /\ LET u == UpdateMetadata(spreadsheet, "last_update", UtcNowStamp)
       IN  /\ spreadsheet' = u.ss
           /\ api_calls' = api_calls \o u.calls
    /\ pc' = "done"
    /\ UNCHANGED <<spreadsheet0, backfill, error, investments, unique_tickers,
                   earliest_date, existing_prices, existing_rates, raw_prices,
                   raw_rates, new_prices, new_rates, fetch_calls, yf_calls,
                   resp_prices, resp_rates, last_set, ncalls>>

\* the worksheet a write step of main works on, with its headers
WriteTarget(step) ==
    IF step = "append_prices" THEN [title |-> SHEET_PRICES, headers |-> PricesHeaders]
    ELSE IF step = "append_rates" THEN [title |-> SHEET_RATES, headers |-> RatesHeaders]
    ELSE [title |-> SHEET_METADATA, headers |-> MetadataHeaders]

\* whether the step at pc makes any spreadsheet call at all
MakesCalls(step) ==
    /\ step \in {"get_investments", "get_existing_prices", "get_existing_rates",
                 "append_prices", "append_rates", "update_metadata"}
    /\ step = "append_prices" => new_prices # <<>>
    /\ step = "append_rates" => new_rates # <<>>

\* A spreadsheet call of the current step raises (API or transport error);
\* nothing in main() or the client catches it.  The call that fails is the
\* first one of the step ("lookup": nothing has happened) or, in a write
\* step, the write that follows _get_or_create_worksheet ("write": the
\* sheet may have been created, no row of the step is stored).  api_calls
\* keeps the calls that completed.
SheetCallFails ==
    /\ MakesCalls(pc)
    /\ \E at \in {"lookup", "write"} :
         IF at = "write" /\ pc \in {"append_prices", "append_rates", "update_metadata"}
         THEN LET g == GetOrCreateWorksheet(spreadsheet, WriteTarget(pc).title,
                                            WriteTarget(pc).headers)
              IN  /\ spreadsheet' = g.ss
                  /\ api_calls' = api_calls \o g.calls
         ELSE UNCHANGED <<spreadsheet, api_calls>>
    /\ error' = pc
    /\ pc' = "aborted"
    /\ UNCHANGED <<spreadsheet0, backfill, investments, unique_tickers,
                   earliest_date, existing_prices, existing_rates, raw_prices,
                   raw_rates, new_prices, new_rates, fetch_calls, yf_calls,
                   resp_prices, resp_rates, last_set, ncalls>>

Next ==
    \/ GetInvestmentsStep
    \/ GetExistingPricesStep
    \/ GetExistingRatesStep
    \/ FetchPricesStep
    \/ FetchRatesStep
    \/ DedupStep
    \/ AppendPricesStep
    \/ AppendRatesStep
    \/ UpdateMetadataStep
    \/ SheetCallFails

Spec == Init /\ [][Next]_vars


-----------------------------------------------------------------------------
(* The dedup filters on their own: any record list against any key set.    *)

FilterTickers == {"AAPL", "MSFT"}
FilterDates == {IsoFormat(Today - 1), IsoFormat(Today)}

PriceRecords ==
    {[ticker |-> t, date |-> d, close |-> CloseValue] : t \in FilterTickers, d \in FilterDates}

RateRecords == {[date |-> d, usd_twd |-> CloseValue] : d \in FilterDates}

InitFilter ==
    /\ spreadsheet = (SHEET_INVESTMENTS :> <<HeaderRow(InvestmentsHeaders)>>)
    /\ spreadsheet0 = spreadsheet
    /\ backfill = FALSE
    /\ pc = "dedup"
    /\ error = ""
    /\ investments = <<>>
    /\ unique_tickers = <<>>
    /\ earliest_date = ""
    /\ raw_prices \in SeqsUpTo(PriceRecords, MaxRecords)
    /\ existing_prices \in SUBSET (FilterTickers \X FilterDates)
    /\ raw_rates \in SeqsUpTo(RateRecords, MaxRecords)
    /\ existing_rates \in SUBSET FilterDates
    /\ new_prices = <<>>
    /\ new_rates = <<>>
    /\ api_calls = <<>>
    /\ fetch_calls = <<>>
    /\ yf_calls = <<>>
    /\ resp_prices = NoResp
    /\ resp_rates = RaiseResp
    /\ last_set = <<>>
    /\ ncalls = 0

\* the filters applied once more, to their own results
RefilterStep ==
    /\ pc = "append_prices"
    /\ raw_prices' = new_prices
    /\ raw_rates' = new_rates
    /\ new_prices' = FilterNewPrices(new_prices, existing_prices)
    /\ new_rates' = FilterNewRates(new_rates, existing_rates)
    /\ pc' = "refiltered"
    /\ UNCHANGED <<spreadsheet, spreadsheet0, backfill, error, investments,
                   unique_tickers, earliest_date, existing_prices, existing_rates,
                   api_calls, fetch_calls, yf_calls, resp_prices, resp_rates,
                   last_set, ncalls>>

NextFilter ==
    \/ DedupStep
    \/ RefilterStep

SpecFilter == InitFilter /\ [][NextFilter]_vars

-----------------------------------------------------------------------------
(* The four fetch_* functions on their own: any day count, any answer.     *)

InitFetch ==
    /\ spreadsheet = (SHEET_INVESTMENTS :> <<HeaderRow(InvestmentsHeaders)>>)
    /\ spreadsheet0 = spreadsheet
    /\ backfill = FALSE
    /\ pc = "fetch"
    /\ InitLocals

FetchTickerLists == {<<"AAPL">>, <<"AAPL", "MSFT">>}
StartDates == {IsoFormat(Today - 1), IsoFormat(Today)}

FetchFrame ==
    UNCHANGED <<spreadsheet, spreadsheet0, backfill, investments, unique_tickers,
                earliest_date, existing_prices, existing_rates, new_prices,
                new_rates, api_calls, last_set, ncalls>>

\* fetch_recent_prices(tickers, days)
FetchRecentPricesOp ==
    /\ pc = "fetch"
    /\ \E tickers \in FetchTickerLists, days \in 1..MaxDays :
         LET call == FetchCall("fetch_recent_prices", tickers, <<>>, <<days>>)
         IN  \E resp \in [Range(tickers) ->
                            Responses(StartOf(call), MaxSeries, {NaN, CloseValue})] :
                 DoFetchPrices(call, resp)
    /\ pc' = "fetched"
    /\ UNCHANGED <<error, raw_rates, resp_rates>>
    /\ FetchFrame

\* fetch_historical_prices(tickers, start_date)
FetchHistoricalPricesOp ==
    /\ pc = "fetch"
    /\ \E tickers \in FetchTickerLists, start_date \in StartDates :
         LET call == FetchCall("fetch_historical_prices", tickers, <<start_date>>, <<>>)
         IN  \E resp \in [Range(tickers) ->
                            Responses(StartOf(call), MaxSeries, {NaN, CloseValue})] :
                 DoFetchPrices(call, resp)
    /\ pc' = "fetched"
    /\ UNCHANGED <<error, raw_rates, resp_rates>>
    /\ FetchFrame

\* fetch_recent_rates(days)
FetchRecentRatesOp ==
    /\ pc = "fetch"
    /\ \E days \in 1..MaxDays :
         LET call == FetchCall("fetch_recent_rates", <<>>, <<>>, <<days>>)
         IN  \E resp \in Responses(StartOf(call), MaxSeries, {NaN, CloseValue}) :
                 DoFetchRates(call, resp, "fetched")
    /\ UNCHANGED <<raw_prices, resp_prices>>
    /\ FetchFrame

\* fetch_historical_rates(start_date)
FetchHistoricalRatesOp ==
    /\ pc = "fetch"
    /\ \E start_date \in StartDates :
         LET call == FetchCall("fetch_historical_rates", <<>>, <<start_date>>, <<>>)
         IN  \E resp \in Responses(StartOf(call), MaxSeries, {NaN, CloseValue}) :
                 DoFetchRates(call, resp, "fetched")
    /\ UNCHANGED <<raw_prices, resp_prices>>
    /\ FetchFrame

NextFetch ==
    \/ FetchRecentPricesOp
    \/ FetchHistoricalPricesOp
    \/ FetchRecentRatesOp
    \/ FetchHistoricalRatesOp

SpecFetch == InitFetch /\ [][NextFetch]_vars

-----------------------------------------------------------------------------
(* update_metadata on its own: any sequence of calls.                      *)

MetaKeys == {"last_update", "schema"}
MetaValues == {OldStamp, UtcNowStamp}
InitMetaKeys == {"last_update", "owner"}

MetaRow(key, value) == RowInput("USER_ENTERED", <<PyStr(key), PyStr(value)>>)

\* metadata sheets with a header and at most one row per key
MetadataSheets ==
    {<<HeaderRow(MetadataHeaders)>> \o rows :
        rows \in {r \in SeqsUpTo({MetaRow(k, OldStamp) : k \in InitMetaKeys},
                                 Cardinality(InitMetaKeys)) :
                    \A i, j \in 1..Len(r) : i # j => r[i] # r[j]}}

Never == ""

InitMeta ==
    /\ \/ spreadsheet = (SHEET_INVESTMENTS :> <<HeaderRow(InvestmentsHeaders)>>)
       \/ \E m \in MetadataSheets :
            spreadsheet = (SHEET_INVESTMENTS :> <<HeaderRow(InvestmentsHeaders)>>)
                          @@ (SHEET_METADATA :> m)
    /\ spreadsheet0 = spreadsheet
    /\ backfill = FALSE
    /\ pc = "meta"
    /\ error = ""
    /\ investments = <<>>
    /\ unique_tickers = <<>>
    /\ earliest_date = ""
    /\ existing_prices = {}
    /\ existing_rates = {}
    /\ raw_prices = <<>>
    /\ raw_rates = <<>>
    /\ new_prices = <<>>
    /\ new_rates = <<>>
    /\ api_calls = <<>>
    /\ fetch_calls = <<>>
    /\ yf_calls = <<>>
    /\ resp_prices = NoResp
    /\ resp_rates = RaiseResp
    /\ last_set = [k \in MetaKeys |-> Never]
    /\ ncalls = 0

\* update_metadata(key, value)
UpdateMetadataOp ==
    /\ pc = "meta"
    /\ ncalls < MaxCalls
    /\ \E key \in MetaKeys, value \in MetaValues :
         LET u == UpdateMetadata(spreadsheet, key, value)
         IN  /\ spreadsheet' = u.ss
             /\ api_calls' = api_calls \o u.calls
             /\ last_set' = [last_set EXCEPT ![key] = value]
    /\ ncalls' = ncalls + 1
    /\ UNCHANGED <<spreadsheet0, backfill, pc, error, investments, unique_tickers,
                   earliest_date, existing_prices, existing_rates, raw_prices,
                   raw_rates, new_prices, new_rates, fetch_calls, yf_calls,
                   resp_prices, resp_rates>>

NextMeta == UpdateMetadataOp

SpecMeta == InitMeta /\ [][NextMeta]_vars


-----------------------------------------------------------------------------
(* main() run again on the spreadsheet a completed run has left, the       *)
(* provider answering as it did before.  Here ncalls counts the runs that  *)
(* have completed.                                                         *)

MaxRuns == 2

\* timestamp = datetime.now(tz=timezone.utc).strftime(...) of the run that
\* follows n completed ones: one hour later each time
RunStamp(n) == IsoFormat(Today) \o "T0" \o ToString(6 + n) \o ":00:00Z"

\* investments sheets for the runs: no row, one ticker, two tickers
RerunInvestmentSheets ==
    {<<HeaderRow(InvestmentsHeaders)>> \o rows :
        rows \in { <<>>,
                   <<InvRow(TextCell("AAPL"), Today - 1, "US")>>,
                   <<InvRow(TextCell("MSFT"), Today, "US"),
                     InvRow(TextCell("AAPL"), Today - 1, "US")>> }}

InitRerun ==
    /\ \E inv \in RerunInvestmentSheets :
         spreadsheet \in { (SHEET_INVESTMENTS :> inv),
                           (SHEET_INVESTMENTS :> inv) @@ PopulatedSheets }
    /\ spreadsheet0 = spreadsheet
    /\ backfill \in BOOLEAN
    /\ pc = "get_investments"
    /\ InitLocals

\* the fetch steps of the first run
FirstFetchPricesStep == ncalls = 0 /\ FetchPricesStep

FirstFetchRatesStep == ncalls = 0 /\ FetchRatesStep

\* raw_prices = fetch_*_prices(...) of a later run: the provider gives the
\* answers it gave to the first
RefetchPricesStep ==
    /\ pc = "fetch_prices"
    /\ ncalls > 0
    /\ DoFetchPrices(MainPriceCall(backfill, unique_tickers, earliest_date), resp_prices)
    /\ pc' = "fetch_rates"
    /\ UNCHANGED <<spreadsheet, spreadsheet0, backfill, error, investments,
                   unique_tickers, earliest_date, existing_prices, existing_rates,
                   raw_rates, new_prices, new_rates, api_calls, resp_rates,
                   last_set, ncalls>>

\* raw_rates = fetch_*_rates(...) of a later run
RefetchRatesStep ==
    /\ pc = "fetch_rates"
    /\ ncalls > 0
    /\ DoFetchRates(MainRateCall(backfill, earliest_date), resp_rates, "dedup")
    /\ UNCHANGED <<spreadsheet, spreadsheet0, backfill, investments, unique_tickers,
                   earliest_date, existing_prices, existing_rates, raw_prices,
                   new_prices, new_rates, api_calls, resp_prices, last_set, ncalls>>

\* sheets.update_metadata("last_update", timestamp), with the time of the run
StampedUpdateMetadataStep ==
    /\ pc = "update_metadata"
    /\ LET u == UpdateMetadata(spreadsheet, "last_update", RunStamp(ncalls))
       IN  /\ spreadsheet' = u.ss
           /\ api_calls' = api_calls \o u.calls
    /\ pc' = "done"
    /\ UNCHANGED <<spreadsheet0, backfill, error, investments, unique_tickers,
                   earliest_date, existing_prices, existing_rates, raw_prices,
                   raw_rates, new_prices, new_rates, fetch_calls, yf_calls,
                   resp_prices, resp_rates, last_set, ncalls>>

\* a spreadsheet call of a later run raises
RerunSheetCallFails == ncalls > 0 /\ SheetCallFails

\* main() is started again after a run that completed: a new process, with
\* nothing kept but the spreadsheet
RerunStep ==
    /\ pc = "done"
    /\ error = ""
    /\ ncalls + 1 < MaxRuns
    /\ ncalls' = ncalls + 1
    /\ pc' = "get_investments"
    /\ spreadsheet0' = spreadsheet
    /\ investments' = <<>>
    /\ unique_tickers' = <<>>
    /\ earliest_date' = ""
    /\ existing_prices' = {}
    /\ existing_rates' = {}
    /\ raw_prices' = <<>>
    /\ raw_rates' = <<>>
    /\ new_prices' = <<>>
    /\ new_rates' = <<>>
    /\ api_calls' = <<>>
    /\ fetch_calls' = <<>>
    /\ yf_calls' = <<>>
    /\ UNCHANGED <<spreadsheet, backfill, error, resp_prices, resp_rates, last_set>>

NextRerun ==
    \/ GetInvestmentsStep
    \/ GetExistingPricesStep
    \/ GetExistingRatesStep
    \/ FirstFetchPricesStep
    \/ FirstFetchRatesStep
    \/ RefetchPricesStep
    \/ RefetchRatesStep
    \/ DedupStep
    \/ AppendPricesStep
    \/ AppendRatesStep
    \/ StampedUpdateMetadataStep
    \/ RerunSheetCallFails
    \/ RerunStep

SpecRerun == InitRerun /\ [][NextRerun]_vars

-----------------------------------------------------------------------------
(* Properties.                                                             *)

\* the indexes of the records a filter has to keep
KeptPrices(R, E) == {i \in 1..Len(R) : <<R[i].ticker, R[i].date>> \notin E}
KeptRates(R, E) == {i \in 1..Len(R) : R[i].date \notin E}

\* out is R restricted to the indexes K, in R's order
IsSelection(out, R, K) ==
    /\ Len(out) = Cardinality(K)
    /\ \A i \in K : out[Cardinality({k \in K : k <= i})] = R[i]

\* C1: _filter_new_prices(R, E) is exactly the records of R whose
\* (ticker, date) key is not in E, and _filter_new_rates(R, E) exactly those
\* whose date is not in E, in R's order; filtering the result again with the
\* same E gives the same list.
C1_FilterIsSetDifference ==
    /\ pc = "append_prices" =>
          /\ IsSelection(new_prices, raw_prices, KeptPrices(raw_prices, existing_prices))
          /\ IsSelection(new_rates, raw_rates, KeptRates(raw_rates, existing_rates))
    /\ pc = "refiltered" => new_prices = raw_prices /\ new_rates = raw_rates

C1_Witness ==
    /\ pc = "append_prices"
    /\ Len(raw_prices) = 2 /\ Len(new_prices) = 1 /\ new_prices[1] = raw_prices[2]
    /\ raw_prices[1].date = raw_prices[2].date
    /\ Len(raw_rates) = 2 /\ Len(new_rates) = 1

\* the run has made both of its fetch calls
Fetched ==
    /\ investments # <<>>
    /\ \/ pc \in {"dedup", "append_prices", "append_rates", "update_metadata", "done"}
       \/ pc = "aborted" /\ error \in {"fetch_rates", "append_prices", "append_rates",
                                      "update_metadata"}

IsEarliest(d, invs) ==
    /\ \E i \in 1..Len(invs) : invs[i].date = d
    /\ \A i \in 1..Len(invs) : FromIso(d) <= FromIso(invs[i].date)

IsSortedSetOf(tickers, invs) ==
    /\ Range(tickers) = {invs[i].ticker : i \in 1..Len(invs)}
    /\ \A i, j \in 1..Len(tickers) : i < j => StrRank(tickers[i]) < StrRank(tickers[j])

\* C2: with a non-empty investment list of earliest date D, a backfill run
\* calls fetch_historical_prices and fetch_historical_rates with start D and
\* no recent-mode fetcher; any other run calls fetch_recent_prices and
\* fetch_recent_rates with days = 5 and no historical-mode fetcher; the
\* price fetcher gets the sorted, duplicate-free tickers of the investments.
C2_FetchModeFollowsBackfill ==
    /\ Len(fetch_calls) <= 2
    /\ pc = "fetch_rates" => Len(fetch_calls) = 1
    /\ Fetched =>
          /\ Len(fetch_calls) = 2
          /\ IsSortedSetOf(fetch_calls[1].tickers, investments)
          /\ IF backfill
             THEN /\ fetch_calls[1].fn = "fetch_historical_prices"
                  /\ fetch_calls[2].fn = "fetch_historical_rates"
                  /\ \A i \in 1..2 : /\ Len(fetch_calls[i].start) = 1
                                     /\ IsEarliest(fetch_calls[i].start[1], investments)
                  /\ \A i \in 1..Len(yf_calls) : IsEarliest(yf_calls[i].start, investments)
             ELSE /\ fetch_calls[1].fn = "fetch_recent_prices"
                  /\ fetch_calls[2].fn = "fetch_recent_rates"
                  /\ \A i \in 1..2 : fetch_calls[i].days = <<5>>

C2_Witness ==
    /\ pc = "done"
    /\ backfill
    /\ Len(investments) = 2
    /\ investments[1].ticker = "MSFT" /\ investments[2].ticker = "AAPL"
    /\ investments[1].date # investments[2].date
    /\ Len(fetch_calls) = 2

\* a call that writes to the spreadsheet
IsWrite(c) == c.op \in {"add_worksheet", "append_row", "append_rows", "update_cell"}

\* C3: when get_investments() returns an empty list, main() returns
\* without calling any fetcher and without any write call; the spreadsheet
\* is as it was.
C3_EmptyInvestmentsNoOp ==
    (/\ investments = <<>>
     /\ pc # "get_investments"
     /\ ~(pc = "aborted" /\ error = "get_investments"))
    => /\ pc = "done"
       /\ error = ""
       /\ fetch_calls = <<>>
       /\ yf_calls = <<>>
       /\ \A i \in 1..Len(api_calls) : ~IsWrite(api_calls[i])
       /\ spreadsheet = spreadsheet0

C3_Witness ==
    /\ pc = "done"
    /\ investments = <<>>
    /\ Len(spreadsheet[SHEET_INVESTMENTS]) = 3
    /\ SHEET_METADATA \notin DOMAIN spreadsheet


\* the points of an answer that have a close, in provider order
ValidPoints(resp) ==
    LET HasClose(p) == p.close # "NaN" IN SelectSeq(resp.points, HasClose)

\* the last min(N, k) of the k valid points (all k when there is no N)
LastValid(resp, tail) ==
    LET v == ValidPoints(resp)
        k == Len(v)
        n == IF tail = <<>> THEN k ELSE IF tail[1] < k THEN tail[1] ELSE k
    IN  [i \in 1..n |-> v[k - n + i]]

DayText(p) == IsoFormat(p.ts \div SlotsPerDay)

ExpectedPrices(t, resp, tail) ==
    LET l == LastValid(resp, tail)
    IN  [i \in 1..Len(l) |-> [ticker |-> t, date |-> DayText(l[i]), close |-> l[i].close]]

ExpectedRates(resp, tail) ==
    LET l == LastValid(resp, tail)
    IN  [i \in 1..Len(l) |-> [date |-> DayText(l[i]), usd_twd |-> l[i].close]]

\* the download raised, or the answer cannot be converted
FetchFails(resp) == resp.kind = "raise" \/ (resp.points # <<>> /\ ~resp.close_col)

RecordsOf(records, t) == LET IsT(r) == r.ticker = t IN SelectSeq(records, IsT)

PositionIn(tickers, t) == CHOOSE i \in 1..Len(tickers) : tickers[i] = t

\* records holds, ticker by ticker in list order, what each answer gives
\* and nothing for the tickers whose fetch failed
PricesAsFetched(records, tickers, resp, tail) ==
    /\ \A i \in 1..Len(records) : records[i].ticker \in Range(tickers)
    /\ \A i, j \in 1..Len(records) :
          i < j => PositionIn(tickers, records[i].ticker) <= PositionIn(tickers, records[j].ticker)
    /\ \A t \in Range(tickers) :
          RecordsOf(records, t) =
              IF FetchFails(resp[t]) THEN <<>> ELSE ExpectedPrices(t, resp[t], tail)

C4_PriceStep ==
    pc = "fetch_prices" =>
        /\ pc' = "fetch_rates"
        /\ error' = ""
        /\ PricesAsFetched(raw_prices', unique_tickers, resp_prices',
                           IF backfill THEN <<>> ELSE <<5>>)

C4_RunCompletes ==
    /\ error # "fetch_prices"
    /\ pc = "done" /\ investments # <<>> =>
          /\ new_prices = FilterNewPrices(raw_prices, existing_prices)
          /\ \E i \in 1..Len(api_calls) :
                api_calls[i].title = SHEET_METADATA
                /\ api_calls[i].op \in {"update_cell", "append_row"}
          /\ new_prices # <<>> =>
                \E i \in 1..Len(api_calls) :
                    api_calls[i].title = SHEET_PRICES /\ api_calls[i].op = "append_rows"

\* C4: whichever tickers fail to fetch (download error or conversion
\* error), the price fetcher returns exactly the records of the other
\* tickers, in ticker-list order; the failure never ends the run, which
\* goes on to the rate fetch and, when it completes, has deduplicated,
\* appended and upserted last_update.
C4_TickerFailureIsolated == [][C4_PriceStep]_vars /\ []C4_RunCompletes

C4_Witness ==
    /\ pc = "done"
    /\ unique_tickers = <<"AAPL", "MSFT">>
    /\ resp_prices["AAPL"].kind = "raise"
    /\ Len(raw_prices) = 2 /\ raw_prices[1].ticker = "MSFT"
    /\ Len(new_prices) = 2
    /\ api_calls[Len(api_calls)].title = SHEET_METADATA


\* the rows of the metadata sheet after the header, and those holding key k
MetaRows(ss) == IF SHEET_METADATA \in DOMAIN ss THEN Tail(ss[SHEET_METADATA]) ELSE <<>>
MetaRowsOf(ss, k) == {i \in 1..Len(MetaRows(ss)) : MetaRows(ss)[i][1].v = k}

C6_WindowAndTrim ==
    pc \in {"fetched", "aborted"} =>
        /\ Len(fetch_calls) = 1
        /\ LET call == fetch_calls[1]
               recent == call.fn \in {"fetch_recent_prices", "fetch_recent_rates"}
               tail == IF recent THEN call.days ELSE <<>>
           IN  /\ Len(yf_calls) > 0
               /\ \A i \in 1..Len(yf_calls) :
                     yf_calls[i].start = IF recent
                                         THEN IsoFormat(Today - 3 * call.days[1])
                                         ELSE call.start[1]
               /\ call.fn \in {"fetch_recent_prices", "fetch_historical_prices"} =>
                     \A t \in Range(call.tickers) :
                         FetchFails(resp_prices[t]) \/
                             /\ RecordsOf(raw_prices, t) = ExpectedPrices(t, resp_prices[t], tail)
                             /\ recent => Len(RecordsOf(raw_prices, t)) <= call.days[1]
               /\ call.fn \in {"fetch_recent_rates", "fetch_historical_rates"} =>
                     FetchFails(resp_rates) \/
                         /\ raw_rates = ExpectedRates(resp_rates, tail)
                         /\ recent => Len(raw_rates) <= call.days[1]

C6_Witness ==
    /\ pc = "fetched"
    /\ fetch_calls[1].fn = "fetch_recent_prices"
    /\ fetch_calls[1].days = <<1>>
    /\ fetch_calls[1].tickers = <<"AAPL">>
    /\ Len(resp_prices["AAPL"].points) = 3
    /\ resp_prices["AAPL"].points[3].close = "NaN"
    /\ resp_prices["AAPL"].points[2].close # "NaN"
    /\ Len(raw_prices) = 1

\* the text shown in each cell of a row
Shown(row) == [j \in 1..Len(row) |-> row[j].v]

RowsBefore(ss, title, headers) ==
    IF title \in DOMAIN ss THEN ss[title] ELSE <<HeaderRow(headers)>>

OtherSheetsSame(ss1, ss2, title) ==
    /\ DOMAIN ss1 \ {title} = DOMAIN ss2 \ {title}
    /\ \A t \in DOMAIN ss1 \ {title} : ss1[t] = ss2[t]

C7_PricesStep ==
    (pc = "append_prices" /\ pc' = "append_rates") =>
        IF new_prices = <<>>
        THEN spreadsheet' = spreadsheet /\ api_calls' = api_calls
        ELSE LET old == RowsBefore(spreadsheet, SHEET_PRICES, PricesHeaders)
                 now == spreadsheet'[SHEET_PRICES]
             IN  /\ Len(now) = Len(old) + Len(new_prices)
                 /\ SubSeq(now, 1, Len(old)) = old
                 /\ \A i \in 1..Len(new_prices) :
                       Shown(now[Len(old) + i]) =
                           <<new_prices[i].ticker, new_prices[i].date, new_prices[i].close>>
                 /\ OtherSheetsSame(spreadsheet', spreadsheet, SHEET_PRICES)

C7_RatesStep ==
    (pc = "append_rates" /\ pc' = "update_metadata") =>
        IF new_rates = <<>>
        THEN spreadsheet' = spreadsheet /\ api_calls' = api_calls
        ELSE LET old == RowsBefore(spreadsheet, SHEET_RATES, RatesHeaders)
                 now == spreadsheet'[SHEET_RATES]
             IN  /\ Len(now) = Len(old) + Len(new_rates)
                 /\ SubSeq(now, 1, Len(old)) = old
                 /\ \A i \in 1..Len(new_rates) :
                       Shown(now[Len(old) + i]) = <<new_rates[i].date, new_rates[i].usd_twd>>
                 /\ OtherSheetsSame(spreadsheet', spreadsheet, SHEET_RATES)

\* C7: append_prices([]) and append_rates([]) make no call on the
\* spreadsheet and leave it as it is (an absent sheet stays absent); with a
\* non-empty list they add exactly one row per record, in order, after the
\* rows already there, and change no other row.
C7_AppendFrame == [][C7_PricesStep /\ C7_RatesStep]_vars

C7_Witness ==
    /\ pc = "update_metadata"
    /\ new_prices = <<>>
    /\ SHEET_PRICES \notin DOMAIN spreadsheet
    /\ Len(new_rates) = 2
    /\ Len(spreadsheet[SHEET_RATES]) = 3


\* the run has computed new_prices and new_rates
Deduped ==
    \/ pc \in {"append_prices", "append_rates", "update_metadata", "done"}
    \/ pc = "aborted" /\ error \in {"append_prices", "append_rates", "update_metadata"}

PriceKeys(records) == [i \in 1..Len(records) |-> <<records[i].ticker, records[i].date>>]
RateKeys(records) == [i \in 1..Len(records) |-> records[i].date]

Distinct(keys) == \A i, j \in 1..Len(keys) : i # j => keys[i] # keys[j]

\* the (ticker, date) texts shown in the data rows of the prices sheet
StoredPriceKeys(ss) ==
    IF SHEET_PRICES \in DOMAIN ss
    THEN [i \in 1..(Len(ss[SHEET_PRICES]) - 1) |->
            <<ss[SHEET_PRICES][i + 1][1].v, ss[SHEET_PRICES][i + 1][2].v>>]
    ELSE <<>>

\* C8: every batch handed to append_prices has pairwise distinct
\* (ticker, date) keys and every batch handed to append_rates pairwise
\* distinct dates, whatever the provider answers; a prices sheet without a
\* duplicate key stays without one.
C8_BatchKeysDistinct ==
    /\ Deduped => Distinct(PriceKeys(new_prices)) /\ Distinct(RateKeys(new_rates))
    /\ Distinct(StoredPriceKeys(spreadsheet0)) => Distinct(StoredPriceKeys(spreadsheet))

\* C9: a failure of the rate fetch, in the download call or in the
\* conversion of the answer, is caught in the rate fetcher, which returns
\* an empty list; it never ends the run.
C9_RateFailureCaught ==
    /\ error # "fetch_rates"
    /\ (Deduped /\ investments # <<>> /\ FetchFails(resp_rates)) => raw_rates = <<>>

\* the run has completed append_prices / append_rates
PricesWritten ==
    \/ pc \in {"append_rates", "update_metadata", "done"}
    \/ pc = "aborted" /\ error \in {"append_rates", "update_metadata"}

RatesWritten ==
    \/ pc \in {"update_metadata", "done"}
    \/ pc = "aborted" /\ error = "update_metadata"

AppendRowsCallsUse(mode) ==
    \A i \in 1..Len(api_calls) : api_calls[i].op = "append_rows" => api_calls[i].mode = mode

\* the rows the run appended to a sheet: its last n rows
Appended(title, n) ==
    LET rows == spreadsheet[title]
    IN  [i \in 1..n |-> rows[Len(rows) - n + i]]

\* the records get_all_records returns for those rows
ReadBack(title, n) ==
    LET recs == GetAllRecords(spreadsheet[title])
    IN  [i \in 1..n |-> recs[Len(recs) - n + i]]

KeysRoundTrip ==
    /\ (PricesWritten /\ new_prices # <<>>) =>
          \A i \in 1..Len(new_prices) :
              LET rec == ReadBack(SHEET_PRICES, Len(new_prices))[i]
                  key == <<new_prices[i].ticker, new_prices[i].date>>
              IN  /\ <<Str(rec["ticker"]), Str(rec["date"])>> = key
                  /\ key \in GetExistingPrices(spreadsheet)
    /\ (RatesWritten /\ new_rates # <<>>) =>
          \A i \in 1..Len(new_rates) :
              LET rec == ReadBack(SHEET_RATES, Len(new_rates))[i]
              IN  /\ Str(rec["date"]) = new_rates[i].date
                  /\ new_rates[i].date \in GetExistingRates(spreadsheet)

\* C10 as stated: the appends write in raw mode, so each cell stores the
\* value given (ticker text, ISO date text, close number), and the key read
\* back for a written row is the key of its record.
C10_RawWrites ==
    /\ AppendRowsCallsUse("RAW")
    /\ (PricesWritten /\ new_prices # <<>>) =>
          \A i \in 1..Len(new_prices) :
              Appended(SHEET_PRICES, Len(new_prices))[i] =
                  <<TextCell(new_prices[i].ticker), TextCell(new_prices[i].date),
                    NumberCell(new_prices[i].close)>>
    /\ (RatesWritten /\ new_rates # <<>>) =>
          \A i \in 1..Len(new_rates) :
              Appended(SHEET_RATES, Len(new_rates))[i] =
                  <<TextCell(new_rates[i].date), NumberCell(new_rates[i].usd_twd)>>
    /\ KeysRoundTrip

\* C10, amended: the appends write in USER_ENTERED mode, so the date is
\* stored as a date cell showing the ISO text, the ticker as text and the
\* close as a number, and the key read back for a written row is the key
\* of its record.
C10_UserEnteredWrites ==
    /\ AppendRowsCallsUse("USER_ENTERED")
    /\ (PricesWritten /\ new_prices # <<>>) =>
          \A i \in 1..Len(new_prices) :
              Appended(SHEET_PRICES, Len(new_prices))[i] =
                  <<TextCell(new_prices[i].ticker), DateCell(new_prices[i].date),
                    NumberCell(new_prices[i].close)>>
    /\ (RatesWritten /\ new_rates # <<>>) =>
          \A i \in 1..Len(new_rates) :
              Appended(SHEET_RATES, Len(new_rates))[i] =
                  <<DateCell(new_rates[i].date), NumberCell(new_rates[i].usd_twd)>>
    /\ KeysRoundTrip

C10_Witness ==
    /\ pc = "done"
    /\ SHEET_PRICES \in DOMAIN spreadsheet0
    /\ Len(new_prices) = 2 /\ new_prices[1].ticker # new_prices[2].ticker
    /\ Len(new_rates) = 1
    /\ Len(spreadsheet[SHEET_PRICES]) = 4

\* the rows of a sheet after its header row (none if the sheet is absent)
DataRows(ss, title) == IF title \in DOMAIN ss THEN Tail(ss[title]) ELSE <<>>

\* the last rows of a sheet show exactly the given rows, in order
EndsWith(ss, title, shown) ==
    \/ shown = <<>>
    \/ LET rows == DataRows(ss, title)
       IN  /\ Len(rows) >= Len(shown)
           /\ \A i \in 1..Len(shown) :
                 Shown(rows[Len(rows) - Len(shown) + i]) = shown[i]

NewPriceRows == [i \in 1..Len(new_prices) |->
                    <<new_prices[i].ticker, new_prices[i].date, new_prices[i].close>>]

NewRateRows == [i \in 1..Len(new_rates) |-> <<new_rates[i].date, new_rates[i].usd_twd>>]

\* the position of a sheet in the order main() writes to them
WriteRank(title) ==
    IF title = SHEET_PRICES THEN 1 ELSE IF title = SHEET_RATES THEN 2 ELSE 3

\* the write calls made so far are in the order prices, rates, metadata
WritesInOrder ==
    \A i, j \in 1..Len(api_calls) :
        (i < j /\ IsWrite(api_calls[i]) /\ IsWrite(api_calls[j])) =>
            WriteRank(api_calls[i].title) <= WriteRank(api_calls[j].title)

\* a step that adds or changes a data row of a sheet is the step of main()
\* for that sheet, taken with everything due before it in storage
C11_Step ==
    /\ DataRows(spreadsheet', SHEET_PRICES) # DataRows(spreadsheet, SHEET_PRICES) =>
          /\ pc = "append_prices"
          /\ DataRows(spreadsheet, SHEET_RATES) = DataRows(spreadsheet0, SHEET_RATES)
          /\ DataRows(spreadsheet, SHEET_METADATA) = DataRows(spreadsheet0, SHEET_METADATA)
    /\ DataRows(spreadsheet', SHEET_RATES) # DataRows(spreadsheet, SHEET_RATES) =>
          /\ pc = "append_rates"
          /\ EndsWith(spreadsheet, SHEET_PRICES, NewPriceRows)
          /\ DataRows(spreadsheet, SHEET_METADATA) = DataRows(spreadsheet0, SHEET_METADATA)
    /\ DataRows(spreadsheet', SHEET_METADATA) # DataRows(spreadsheet, SHEET_METADATA) =>
          /\ pc = "update_metadata"
          /\ EndsWith(spreadsheet, SHEET_PRICES, NewPriceRows)
          /\ EndsWith(spreadsheet, SHEET_RATES, NewRateRows)

C11_State ==
    /\ WritesInOrder
    /\ DataRows(spreadsheet, SHEET_METADATA) # DataRows(spreadsheet0, SHEET_METADATA) =>
          /\ EndsWith(spreadsheet, SHEET_PRICES, NewPriceRows)
          /\ EndsWith(spreadsheet, SHEET_RATES, NewRateRows)
    /\ (pc = "aborted" /\ error = "append_rates") =>
          /\ EndsWith(spreadsheet, SHEET_PRICES, NewPriceRows)
          /\ Len(DataRows(spreadsheet, SHEET_PRICES)) =
                Len(DataRows(spreadsheet0, SHEET_PRICES)) + Len(new_prices)
          /\ DataRows(spreadsheet, SHEET_RATES) = DataRows(spreadsheet0, SHEET_RATES)
          /\ DataRows(spreadsheet, SHEET_METADATA) = DataRows(spreadsheet0, SHEET_METADATA)

\* C11: in every run, aborted or not, the writes happen in the order prices
\* append, rates append, last_update upsert: no rate row is written before
\* append_prices has completed and last_update is not written before both
\* appends have completed.  So a run that has changed last_update has all
\* its new price and rate records in storage, and a run that fails in
\* append_rates leaves the new prices written, no rate row written and
\* last_update as it was.
C11_WriteOrder == [][C11_Step]_vars /\ []C11_State

C11_Witness ==
    /\ pc = "aborted"
    /\ error = "append_rates"
    /\ Len(new_prices) = 2
    /\ new_rates # <<>>
    /\ SHEET_METADATA \in DOMAIN spreadsheet0
    /\ Len(DataRows(spreadsheet, SHEET_PRICES)) = 3

\* every data row of the prices and exchange_rates sheets has its key cells
\* filled
StoredKeysNonEmpty(ss) ==
    /\ \A i \in 1..Len(DataRows(ss, SHEET_PRICES)) :
          DataRows(ss, SHEET_PRICES)[i][1].v # "" /\ DataRows(ss, SHEET_PRICES)[i][2].v # ""
    /\ \A i \in 1..Len(DataRows(ss, SHEET_RATES)) : DataRows(ss, SHEET_RATES)[i][1].v # ""

\* the cells (row, column) in which two versions of a sheet differ
DiffCells(rows, rows0) ==
    {c \in (1..Len(rows)) \X (1..2) : rows[c[1]][c[2]] # rows0[c[1]][c[2]]}

\* the metadata sheet differs from its earlier version at most in the value
\* cell of one last_update row
OnlyLastUpdateValueChanged(ss, ss0) ==
    SHEET_METADATA \in DOMAIN ss =>
        /\ Len(ss[SHEET_METADATA]) = Len(ss0[SHEET_METADATA])
        /\ LET d == DiffCells(ss[SHEET_METADATA], ss0[SHEET_METADATA])
           IN  /\ Cardinality(d) <= 1
               /\ \A c \in d : /\ c[1] > 1
                               /\ c[2] = 2
                               /\ ss0[SHEET_METADATA][c[1]][1].v = "last_update"

\* C12: a run that follows a completed run, on the spreadsheet that run
\* left (every stored key non-empty) and with the same fetched records,
\* finds nothing new: its new_prices and new_rates are empty, it appends no
\* row and creates no sheet, the prices, exchange_rates and investments
\* sheets stay as they were, and the only cell that may change is the value
\* of the last_update row of the metadata sheet.
C12_RerunIdempotent ==
    (ncalls >= 1 /\ StoredKeysNonEmpty(spreadsheet0)) =>
        /\ Deduped => new_prices = <<>> /\ new_rates = <<>>
        /\ \A i \in 1..Len(api_calls) :
              api_calls[i].op \notin {"append_rows", "append_row", "add_worksheet"}
        /\ DOMAIN spreadsheet = DOMAIN spreadsheet0
        /\ \A t \in DOMAIN spreadsheet \ {SHEET_METADATA} : spreadsheet[t] = spreadsheet0[t]
        /\ OnlyLastUpdateValueChanged(spreadsheet, spreadsheet0)

C12_Witness ==
    /\ ncalls = 1
    /\ pc = "done"
    /\ Len(raw_prices) = 2
    /\ raw_rates # <<>>
    /\ new_prices = <<>>
    /\ Len(DataRows(spreadsheet, SHEET_PRICES)) = 3
    /\ DataRows(spreadsheet, SHEET_RATES) # <<>>
    /\ spreadsheet[SHEET_METADATA] # spreadsheet0[SHEET_METADATA]

====
